---- MODULE Spec2Model ----
(***************************************************************************)
(* sleep-stats: a batch pipeline that reads a sleep-tracking CSV export,   *)
(* keeps the Watch rows inside an optional date range, groups the          *)
(* intervals by the calendar date of their start, sums the durations per   *)
(* night and stage, saves a chart and prints a summary.                    *)
(*                                                                         *)
(* Times are Unix seconds (UTC).  A timestamp field of the CSV is a record *)
(* [date |-> <<Y, M, D>>, clock |-> <<h, m, s>>, zone |-> "+0000"], a      *)
(* calendar date string "YYYY-MM-DD" is the tuple <<Y, M, D>>, and a text  *)
(* compared by prefix is a sequence of characters.  A Go map is a function *)
(* whose DOMAIN is the key set; a Go duration is a number of seconds.      *)
(***************************************************************************)
EXTENDS Integers, Sequences, FiniteSets, TLC

VARIABLES
    pc,            \* position of main: "flags", "parse", "group", "stats", "plot", "print", "done", "exit"
    args,          \* the command line flags: file, start, end, lines
    file,          \* the content of the CSV file, NoFile until it is read
    startDate,     \* *time.Time of main: <<>> is nil, <<t>> points to t
    endDate,       \* *time.Time of main: <<>> is nil, <<t>> points to t
    sleepData,     \* []SleepData returned by parseCSV
    err,           \* error returned by parseCSV: "nil" or a message
    groupedData,   \* map[string][]SleepData of groupByDate
    nightlyStats,  \* map[string]map[string]time.Duration
    chart,         \* sleep_statistics.svg: NoChart until saved
    stdout,        \* the lines printed so far
    exitCode       \* process status: -1 while running

vars == <<pc, args, file, startDate, endDate, sleepData, err, groupedData,
          nightlyStats, chart, stdout, exitCode>>

-----------------------------------------------------------------------------
(* Bounds of the model *)

\* the largest number of data rows of a file
MaxRows == 3

\* the largest number of intervals of a list handed to groupByDate directly
MaxLen == 3

-----------------------------------------------------------------------------
(* Calendar arithmetic of package time, as used by Parse, Format and Unix *)

IsLeap(y) == (y % 4 = 0 /\ y % 100 # 0) \/ y % 400 = 0

DaysIn(y, m) ==
    IF m = 2 THEN (IF IsLeap(y) THEN 29 ELSE 28)
    ELSE IF m \in {4, 6, 9, 11} THEN 30 ELSE 31

\* days from 1970-01-01 to the civil date <<y, m, d>>
DaysFromCivil(date) ==
    LET m   == date[2]
        d   == date[3]
        y   == IF m <= 2 THEN date[1] - 1 ELSE date[1]
        era == y \div 400
        yoe == y - era * 400
        mp  == IF m > 2 THEN m - 3 ELSE m + 9
        doy == (153 * mp + 2) \div 5 + d - 1
        doe == yoe * 365 + yoe \div 4 - yoe \div 100 + doy
    IN  era * 146097 + doe - 719468

\* the civil date <<y, m, d>> of a day counted from 1970-01-01
CivilFromDays(z) ==
    LET zz  == z + 719468
        era == zz \div 146097
        doe == zz - era * 146097
        yoe == (doe - doe \div 1460 + doe \div 36524 - doe \div 146096) \div 365
        doy == doe - (365 * yoe + yoe \div 4 - yoe \div 100)
        mp  == (5 * doy + 2) \div 153
        d   == doy - (153 * mp + 2) \div 5 + 1
        m   == IF mp < 10 THEN mp + 3 ELSE mp - 9
        y   == yoe + era * 400
    IN  <<IF m <= 2 THEN y + 1 ELSE y, m, d>>

ValidDate(date) ==
    /\ Len(date) = 3
    /\ date[2] \in 1..12
    /\ date[3] \in 1..DaysIn(date[1], date[2])

ValidClock(clock) ==
    /\ clock[1] \in 0..23
    /\ clock[2] \in 0..59
    /\ clock[3] \in 0..59

\* time.Parse("2006-01-02", s): the midnight UTC of the date, or an error
ParseDate(s) ==
    IF ValidDate(s)
    THEN [ok |-> TRUE, t |-> DaysFromCivil(s) * 86400]
    ELSE [ok |-> FALSE, t |-> 0]

\* time.Parse("2006-01-02 15:04:05 +0000", s): "+0000" is no layout element
\* of package time, so the value must carry these five characters literally
\* and the time read is UTC
ParseTimestamp(s) ==
    IF ValidDate(s.date) /\ ValidClock(s.clock) /\ s.zone = "+0000"
    THEN [ok |-> TRUE,
          t  |-> DaysFromCivil(s.date) * 86400
                 + s.clock[1] * 3600 + s.clock[2] * 60 + s.clock[3]]
    ELSE [ok |-> FALSE, t |-> 0]

\* t.Format("2006-01-02") of a UTC time
FormatDate(t) == CivilFromDays(t \div 86400)

\* t.Hour() of a UTC time
Hour(t) == (t % 86400) \div 3600

\* strings.HasPrefix(s, prefix)
HasPrefix(s, prefix) ==
    /\ Len(s) >= Len(prefix)
    /\ SubSeq(s, 1, Len(prefix)) = prefix

-----------------------------------------------------------------------------
(* The inputs: command lines and CSV files *)

Watch == <<"W", "a", "t", "c", "h">>

WatchProduct == <<"W", "a", "t", "c", "h", "6", ",", "1">>

PhoneProduct == <<"i", "P", "h", "o", "n", "e", "1", "4">>

\* a well-formed timestamp field of January 2024
T(d, h, m, s) == [date |-> <<2024, 1, d>>, clock |-> <<h, m, s>>, zone |-> "+0000"]

\* timestamp fields that time.Parse rejects: another offset, an hour of 25
BadZone == [date |-> <<2024, 1, 1>>, clock |-> <<23, 0, 0>>, zone |-> "-0500"]

BadHour == [date |-> <<2024, 1, 2>>, clock |-> <<25, 0, 0>>, zone |-> "+0000"]

\* the header row: the column names the program looks up
Header == <<"productType", "startDate", "endDate", "value">>

\* the data rows a file is made of, fields in the order of Header
Rows ==
    { <<WatchProduct, T(1, 23, 0, 0),   T(2, 1, 0, 0),  "asleepCore">>,
      <<WatchProduct, T(2, 1, 0, 0),    T(2, 1, 30, 0), "awake">>,
      <<PhoneProduct, T(1, 23, 0, 0),   T(2, 0, 0, 0),  "inBed">>,
      <<WatchProduct, T(1, 23, 59, 59), T(2, 0, 0, 0),  "inBed">>,
      <<WatchProduct, T(2, 0, 0, 0),    T(2, 1, 0, 0),  "inBed">>,
      <<WatchProduct, T(3, 13, 0, 0),   T(3, 13, 30, 0), "asleepCore">>,
      <<WatchProduct, BadZone,          T(2, 1, 0, 0),  "asleepCore">>,
      <<WatchProduct, T(2, 1, 0, 0),    BadHour,        "awake">>,
      <<PhoneProduct, BadZone,          BadHour,        "inBed">> }

SeqsUpTo(S, n) == UNION { [1..k -> S] : k \in 0..n }

\* a file that cannot be opened
NoFile == [exists |-> FALSE]

\* the files that exist: an optional "sep=" line, the header, the data rows;
\* a file with an empty header stands for a file of fewer than four bytes
Files ==
    { [exists |-> TRUE, sep |-> sp, header |-> Header, records |-> rs] :
        sp \in BOOLEAN, rs \in SeqsUpTo(Rows, MaxRows) }
    \cup { [exists |-> TRUE, sep |-> FALSE, header |-> <<>>, records |-> <<>>] }

\* the values of -start and -end: <<>> is the empty string
StartFlags == { <<>>, <<2024, 1, 2>>, <<2024, 1, 32>> }

EndFlags == { <<>>, <<2024, 1, 2>>, <<2024, 2, 30>> }

Args ==
    { [file |-> f, start |-> s, end |-> e, lines |-> l] :
        f \in {"", "sleep.csv"}, s \in StartFlags, e \in EndFlags, l \in BOOLEAN }

-----------------------------------------------------------------------------
(* parseCSV *)

\* parseHeader: the map from a column name to its index; a name that occurs
\* twice keeps its last index
parseHeader(header) ==
    [name \in {header[i] : i \in DOMAIN header} |->
        CHOOSE i \in DOMAIN header :
            /\ header[i] = name
            /\ \A j \in DOMAIN header : header[j] = name => j <= i]

\* the range check with both ends exclusive: After and Before without Equal
InRangeExclusive(start, end, startFilter, endFilter) ==
    /\ (startFilter = <<>> \/ start > startFilter[1])
    /\ (endFilter = <<>> \/ end < endFilter[1])

\* the condition under which parseCSV appends a parsed row
InRange(start, end, startFilter, endFilter) ==
    /\ (startFilter = <<>> \/ start > startFilter[1] \/ start = startFilter[1])
    /\ (endFilter = <<>> \/ end < endFilter[1] \/ end = endFilter[1])

\* the loop with a row whose timestamps do not parse skipped like a row of
\* another device
RECURSIVE ReadRecordsSkipBad(_, _, _, _, _)
ReadRecordsSkipBad(records, headerMap, startFilter, endFilter, acc) ==
    IF records = <<>>
    THEN [data |-> acc, err |-> "nil"]
    ELSE LET record  == Head(records)
             isWatch == HasPrefix(record[headerMap["productType"]], Watch)
             start   == ParseTimestamp(record[headerMap["startDate"]])
             end     == ParseTimestamp(record[headerMap["endDate"]])
         IN  IF isWatch /\ start.ok /\ end.ok
                /\ InRange(start.t, end.t, startFilter, endFilter)
             THEN ReadRecordsSkipBad(Tail(records), headerMap, startFilter, endFilter,
                      Append(acc, [StartDate |-> start.t, EndDate |-> end.t,
                                   Value |-> record[headerMap["value"]]]))
             ELSE ReadRecordsSkipBad(Tail(records), headerMap, startFilter, endFilter, acc)

\* the loop with the end of the file returned as the error io.EOF
RECURSIVE ReadRecordsEofErr(_, _, _, _, _)
ReadRecordsEofErr(records, headerMap, startFilter, endFilter, acc) ==
    IF records = <<>>
    THEN [data |-> <<>>, err |-> "EOF"]
    ELSE LET record  == Head(records)
             isWatch == HasPrefix(record[headerMap["productType"]], Watch)
             start   == ParseTimestamp(record[headerMap["startDate"]])
             end     == ParseTimestamp(record[headerMap["endDate"]])
         IN  IF ~isWatch
             THEN ReadRecordsEofErr(Tail(records), headerMap, startFilter, endFilter, acc)
             ELSE IF ~start.ok
             THEN [data |-> <<>>, err |-> "parsing time: startDate"]
             ELSE IF ~end.ok
             THEN [data |-> <<>>, err |-> "parsing time: endDate"]
             ELSE IF InRange(start.t, end.t, startFilter, endFilter)
             THEN ReadRecordsEofErr(Tail(records), headerMap, startFilter, endFilter,
                      Append(acc, [StartDate |-> start.t, EndDate |-> end.t,
                                   Value |-> record[headerMap["value"]]]))
             ELSE ReadRecordsEofErr(Tail(records), headerMap, startFilter, endFilter, acc)

\* the loop of parseCSV over the records that csvReader.Read returns
RECURSIVE ReadRecords(_, _, _, _, _)
ReadRecords(records, headerMap, startFilter, endFilter, acc) ==
    IF records = <<>>
    THEN [data |-> acc, err |-> "nil"]
    ELSE LET record  == Head(records)
             isWatch == HasPrefix(record[headerMap["productType"]], Watch)
             start   == ParseTimestamp(record[headerMap["startDate"]])
             end     == ParseTimestamp(record[headerMap["endDate"]])
         IN  IF ~isWatch
             THEN ReadRecords(Tail(records), headerMap, startFilter, endFilter, acc)
             ELSE IF ~start.ok
             THEN [data |-> <<>>, err |-> "parsing time: startDate"]
             ELSE IF ~end.ok
             THEN [data |-> <<>>, err |-> "parsing time: endDate"]
             ELSE IF InRange(start.t, end.t, startFilter, endFilter)
             THEN ReadRecords(Tail(records), headerMap, startFilter, endFilter,
                      Append(acc, [StartDate |-> start.t, EndDate |-> end.t,
                                   Value |-> record[headerMap["value"]]]))
             ELSE ReadRecords(Tail(records), headerMap, startFilter, endFilter, acc)

\* parseCSV(filename, startFilter, endFilter) on the file f: the intervals,
\* the error, and whether parseHeader printed the header map
\* (a leading "sep=" line is read past before the header and changes nothing
\* of the result; Peek(4) fails on a file shorter than four bytes)
parseCSV(f, startFilter, endFilter) ==
    IF ~f.exists
    THEN [data |-> <<>>, err |-> "open: no such file", printed |-> FALSE]
    ELSE IF f.header = <<>>
    THEN [data |-> <<>>, err |-> "EOF", printed |-> FALSE]
    ELSE LET r == ReadRecords(f.records, parseHeader(f.header),
                              startFilter, endFilter, <<>>)
         IN  [data |-> r.data, err |-> r.err, printed |-> TRUE]

-----------------------------------------------------------------------------
(* main, up to the call of parseCSV *)

NoChart == [saved |-> FALSE]

Init ==
    /\ pc = "flags"
    /\ args \in Args
    /\ file = NoFile
    /\ startDate = <<>>
    /\ endDate = <<>>
    /\ sleepData = <<>>
    /\ err = "nil"
    /\ groupedData = <<>>
    /\ nightlyStats = <<>>
    /\ chart = NoChart
    /\ stdout = <<>>
    /\ exitCode = -1

\* os.Exit(1) after printing a line
Fail(line) ==
    /\ stdout' = Append(stdout, line)
    /\ exitCode' = 1
    /\ pc' = "exit"

\* flag.Parse and the checks of -file, -start and -end
ParseFlags ==
    /\ pc = "flags"
    /\ LET s == ParseDate(args.start)
           e == ParseDate(args.end)
       IN  IF args.file = ""
           THEN Fail([kind |-> "usage"]) /\ UNCHANGED <<startDate, endDate>>
           ELSE IF args.start # <<>> /\ ~s.ok
           THEN Fail([kind |-> "invalid start"]) /\ UNCHANGED <<startDate, endDate>>
           ELSE IF args.end # <<>> /\ ~e.ok
           THEN /\ Fail([kind |-> "invalid end"])
                /\ startDate' = (IF args.start # <<>> THEN <<s.t>> ELSE <<>>)
                /\ UNCHANGED endDate
           ELSE /\ startDate' = (IF args.start # <<>> THEN <<s.t>> ELSE <<>>)
                /\ endDate' = (IF args.end # <<>> THEN <<e.t>> ELSE <<>>)
                /\ pc' = "parse"
                /\ UNCHANGED <<stdout, exitCode>>
    /\ UNCHANGED <<args, file, sleepData, err, groupedData, nightlyStats, chart>>

\* sleepData, err := parseCSV(...) and the error exit of main
ParseCSV ==
    /\ pc = "parse"
    /\ \E f \in Files \cup {NoFile} :
         LET r   == parseCSV(f, startDate, endDate)
             out == IF r.printed THEN Append(stdout, [kind |-> "headerMap"]) ELSE stdout
         IN  /\ file' = f
             /\ sleepData' = r.data
             /\ err' = r.err
             /\ IF r.err # "nil"
                THEN /\ stdout' = Append(out, [kind |-> "error", err |-> r.err])
                     /\ exitCode' = 1
                     /\ pc' = "exit"
                ELSE /\ stdout' = out
                     /\ pc' = "group"
                     /\ UNCHANGED exitCode
    /\ UNCHANGED <<args, startDate, endDate, groupedData, nightlyStats, chart>>

-----------------------------------------------------------------------------
(* groupByDate and calculateNightlyStatistics *)

\* m[k] of a Go map of durations: the zero value when k is absent
Get(m, k) == IF k \in DOMAIN m THEN m[k] ELSE 0

\* the key with a start before noon counted to the previous day:
\* dateKey.AddDate(0, 0, -1) when entry.StartDate.Hour() < 12
dateKeyStrShifted(entry) ==
    IF Hour(entry.StartDate) < 12
    THEN FormatDate(entry.StartDate - 24 * 3600)
    ELSE FormatDate(entry.StartDate)

\* the key of an entry: the date of its start, as formatted
dateKeyStr(entry) == FormatDate(entry.StartDate)

\* the bucket overwritten by the entry instead of extended by it
appendEntryReplace(grouped, entry) ==
    LET key == dateKeyStr(entry)
    IN  [k \in DOMAIN grouped \cup {key} |->
            IF k = key THEN <<entry>> ELSE grouped[k]]

\* groupedData[dateKeyStr] = append(groupedData[dateKeyStr], entry)
appendEntry(grouped, entry) ==
    LET key == dateKeyStr(entry)
    IN  [k \in DOMAIN grouped \cup {key} |->
            IF k = key
            THEN Append(IF k \in DOMAIN grouped THEN grouped[k] ELSE <<>>, entry)
            ELSE grouped[k]]

RECURSIVE groupLoop(_, _)
groupLoop(data, grouped) ==
    IF data = <<>> THEN grouped
    ELSE groupLoop(Tail(data), appendEntry(grouped, Head(data)))

groupByDate(data) == groupLoop(data, <<>>)

\* the total assigned instead of added to: stats[entry.Value] = duration
addDurationAssign(stats, entry) ==
    LET duration == entry.EndDate - entry.StartDate
    IN  [v \in DOMAIN stats \cup {entry.Value} |->
            IF v = entry.Value THEN duration ELSE stats[v]]

\* duration := entry.EndDate.Sub(entry.StartDate); stats[entry.Value] += duration
addDuration(stats, entry) ==
    LET duration == entry.EndDate - entry.StartDate
    IN  [v \in DOMAIN stats \cup {entry.Value} |->
            IF v = entry.Value THEN Get(stats, v) + duration ELSE stats[v]]

RECURSIVE statsLoop(_, _)
statsLoop(entries, stats) ==
    IF entries = <<>> THEN stats
    ELSE statsLoop(Tail(entries), addDuration(stats, Head(entries)))

\* the entries of a bucket with every repeated entry dropped
RECURSIVE distinctEntries(_)
distinctEntries(entries) ==
    IF entries = <<>> THEN <<>>
    ELSE LET rest == distinctEntries(Tail(entries))
         IN  IF \E i \in DOMAIN rest : rest[i] = Head(entries)
             THEN rest
             ELSE <<Head(entries)>> \o rest

\* the statistics with an interval that occurs twice counted once
calculateNightlyStatisticsDistinct(data) ==
    [date \in DOMAIN data |-> statsLoop(distinctEntries(data[date]), <<>>)]

calculateNightlyStatistics(data) ==
    [date \in DOMAIN data |-> statsLoop(data[date], <<>>)]

GroupByDate ==
    /\ pc = "group"
    /\ groupedData' = groupByDate(sleepData)
    /\ pc' = "stats"
    /\ UNCHANGED <<args, file, startDate, endDate, sleepData, err, nightlyStats,
                   chart, stdout, exitCode>>

CalculateNightlyStatistics ==
    /\ pc = "stats"
    /\ nightlyStats' = calculateNightlyStatistics(groupedData)
    /\ pc' = "plot"
    /\ UNCHANGED <<args, file, startDate, endDate, sleepData, err, groupedData,
                   chart, stdout, exitCode>>

-----------------------------------------------------------------------------
(* createPlot *)

\* the orders in which a range over a Go map with key set S may visit it
Orders(S) ==
    { o \in [1..Cardinality(S) -> S] : \A k \in S : \E i \in DOMAIN o : o[i] = k }

\* Duration.Minutes(): seconds / 60, kept exact as whole minutes and seconds
Minutes(d) == [min |-> d \div 60, sec |-> d % 60]

\* the stages that are charted and printed, with their labels
Stages == <<"inBed", "asleepCore", "asleepREM", "asleepDeep", "awake">>

Labels == <<"In Bed", "Asleep Core", "Asleep REM", "Asleep Deep", "Awake">>

\* insertion of a time into a sequence sorted by Before
RECURSIVE insertSorted(_, _)
insertSorted(sorted, t) ==
    IF sorted = <<>> THEN <<t>>
    ELSE IF t < Head(sorted) THEN <<t>> \o sorted
    ELSE <<Head(sorted)>> \o insertSorted(Tail(sorted), t)

\* sort.Slice(dates, func(i, j int) bool { return dates[i].Before(dates[j]) })
RECURSIVE sortDates(_)
sortDates(dates) ==
    IF dates = <<>> THEN <<>>
    ELSE insertSorted(sortDates(Tail(dates)), Head(dates))

\* the dates slice after the loop over nightlyStats in the order visited
plotDates(visited) == [i \in DOMAIN visited |-> ParseDate(visited[i]).t]

\* a durations slice after the loop over nightlyStats in the order visited
plotDurations(stats, visited, stage) ==
    [i \in DOMAIN visited |-> Minutes(Get(stats[visited[i]], stage))]

\* createItem: points[i].X = datePoints[i].X, points[i].Y = durations[i]
createItem(datePoints, durations) ==
    [i \in DOMAIN durations |-> [X |-> datePoints[i], Y |-> durations[i]]]

\* the legend: with useLines a label is added in the branch and once more
\* after it
legendOf(useLines) ==
    IF useLines
    THEN [i \in 1..(2 * Len(Labels)) |-> Labels[(i + 1) \div 2]]
    ELSE Labels

\* createPlot(nightlyStats, useLines) when the range over the map visits the
\* nights in the order visited.  plotter.NewLine and plotter.NewScatter
\* reject only NaN and infinite values, which no duration is, and Save is
\* taken to succeed.
createPlot(stats, useLines, visited) ==
    LET dates      == sortDates(plotDates(visited))
        datePoints == [i \in DOMAIN dates |-> dates[i]]
    IN  [saved  |-> TRUE,
         style  |-> IF useLines THEN "line" ELSE "scatter",
         legend |-> legendOf(useLines),
         series |-> [k \in DOMAIN Stages |->
                        createItem(datePoints, plotDurations(stats, visited, Stages[k]))]]

CreatePlot ==
    /\ pc = "plot"
    /\ \E visited \in Orders(DOMAIN nightlyStats) :
         chart' = createPlot(nightlyStats, args.lines, visited)
    /\ pc' = "print"
    /\ UNCHANGED <<args, file, startDate, endDate, sleepData, err, groupedData,
                   nightlyStats, stdout, exitCode>>

-----------------------------------------------------------------------------
(* the summary printed by main *)

\* the lines printed for one night
nightLines(stats, date) ==
    <<[kind |-> "Date", date |-> date]>>
    \o [k \in DOMAIN Stages |->
          [kind |-> "Total", label |-> Labels[k], d |-> Get(stats[date], Stages[k])]]

RECURSIVE summaryLines(_, _)
summaryLines(stats, visited) ==
    IF visited = <<>> THEN <<>>
    ELSE nightLines(stats, Head(visited)) \o summaryLines(stats, Tail(visited))

PrintSummary ==
    /\ pc = "print"
    /\ \E visited \in Orders(DOMAIN nightlyStats) :
         stdout' = stdout \o <<[kind |-> "title"]>> \o summaryLines(nightlyStats, visited)
    /\ pc' = "done"
    /\ exitCode' = 0
    /\ UNCHANGED <<args, file, startDate, endDate, sleepData, err, groupedData,
                   nightlyStats, chart>>

-----------------------------------------------------------------------------
(* The program *)

Next ==
    \/ ParseFlags
    \/ ParseCSV
    \/ GroupByDate
    \/ CalculateNightlyStatistics
    \/ CreatePlot
    \/ PrintSummary

Spec == Init /\ [][Next]_vars

TypeOK ==
    /\ pc \in {"flags", "parse", "group", "stats", "plot", "print", "done", "exit"}
    /\ exitCode \in {-1, 0, 1}

-----------------------------------------------------------------------------
(* groupByDate and calculateNightlyStatistics on lists of intervals *)

Starts == { ParseTimestamp(T(1, 23, 0, 0)).t,
            ParseTimestamp(T(2, 1, 0, 0)).t,
            ParseTimestamp(T(3, 13, 0, 0)).t }

Durations == { 30 * 60, 2 * 3600 }

Intervals ==
    { [StartDate |-> s, EndDate |-> s + d, Value |-> v] :
        s \in Starts, d \in Durations, v \in {"inBed", "asleepCore"} }

InitAgg ==
    /\ pc = "group"
    /\ args = [file |-> "sleep.csv", start |-> <<>>, end |-> <<>>, lines |-> FALSE]
    /\ file = NoFile
    /\ startDate = <<>>
    /\ endDate = <<>>
    /\ sleepData \in SeqsUpTo(Intervals, MaxLen)
    /\ err = "nil"
    /\ groupedData = <<>>
    /\ nightlyStats = <<>>
    /\ chart = NoChart
    /\ stdout = <<>>
    /\ exitCode = -1

NextAgg ==
    \/ GroupByDate
    \/ CalculateNightlyStatistics

SpecAgg == InitAgg /\ [][NextAgg]_vars

-----------------------------------------------------------------------------
(* Operators used to state the properties *)

\* the sum of the values of a function with a finite domain
RECURSIVE SumFn(_)
SumFn(f) ==
    IF DOMAIN f = {} THEN 0
    ELSE LET x == CHOOSE y \in DOMAIN f : TRUE
         IN  f[x] + SumFn([y \in DOMAIN f \ {x} |-> f[y]])

Range(seq) == { seq[i] : i \in DOMAIN seq }

\* the number of positions of seq that hold e
Count(seq, e) == Cardinality({ i \in DOMAIN seq : seq[i] = e })

Length(entry) == entry.EndDate - entry.StartDate

\* the sum of the lengths of the intervals of a sequence
TotalLength(seq) ==
    SumFn([i \in DOMAIN seq |-> Length(seq[i])])

\* the sum of the durations a night's statistics hold over all stage labels
TotalOfStages(stats) ==
    SumFn([v \in DOMAIN stats |-> stats[v]])

\* the permutations of the positions of a sequence, and the sequence permuted
PositionPerms(n) ==
    { p \in [1..n -> 1..n] : \A k \in 1..n : \E i \in 1..n : p[i] = k }

Permuted(seq, p) == [i \in DOMAIN seq |-> seq[p[i]]]

\* C1: after groupByDate and calculateNightlyStatistics, the nights of the
\* statistics are the nights of the buckets, and for every night the sum of
\* the accumulated durations over all stage labels equals the sum of
\* (EndDate - StartDate) over the intervals of that night's bucket.
C1_Conservation ==
    pc = "plot" =>
        /\ DOMAIN nightlyStats = DOMAIN groupedData
        /\ \A night \in DOMAIN groupedData :
              TotalOfStages(nightlyStats[night]) = TotalLength(groupedData[night])

\* a night whose bucket holds two intervals of one stage and one of another
C1_Witness ==
    /\ pc = "plot"
    /\ \E night \in DOMAIN groupedData :
          /\ Len(groupedData[night]) = 3
          /\ Cardinality(DOMAIN nightlyStats[night]) = 2

\* C2: every interval of the input is in exactly one bucket, as many times
\* as it occurs in the input; no bucket is empty; there are at most as many
\* buckets as intervals.
C2_GroupingTotal ==
    pc \in {"stats", "plot"} =>
        /\ \A k \in DOMAIN groupedData : groupedData[k] # <<>>
        /\ Cardinality(DOMAIN groupedData) <= Len(sleepData)
        /\ \A e \in Range(sleepData) :
              /\ Cardinality({ k \in DOMAIN groupedData : e \in Range(groupedData[k]) }) = 1
              /\ \E k \in DOMAIN groupedData : Count(groupedData[k], e) = Count(sleepData, e)
        /\ \A k \in DOMAIN groupedData : Range(groupedData[k]) \subseteq Range(sleepData)

\* an input with a repeated interval and intervals of two nights
C2_Witness ==
    /\ pc = "stats"
    /\ Cardinality(DOMAIN groupedData) = 2
    /\ \E e \in Range(sleepData) : Count(sleepData, e) = 2

\* C9: the statistics of every permutation of the input are the statistics
\* of the input, and for every night and stage the total is the sum over the
\* distinct intervals of that night and stage of their length times the
\* number of times they occur in the input.
C9_OrderIndependentNoDedup ==
    pc = "plot" =>
        /\ \A p \in PositionPerms(Len(sleepData)) :
              calculateNightlyStatistics(groupByDate(Permuted(sleepData, p))) = nightlyStats
        /\ \A e \in Range(sleepData) :
              LET same == { x \in Range(sleepData) :
                              /\ FormatDate(x.StartDate) = FormatDate(e.StartDate)
                              /\ x.Value = e.Value }
              IN  Get(nightlyStats[FormatDate(e.StartDate)], e.Value)
                    = SumFn([x \in same |-> Count(sleepData, x) * Length(x)])

\* an interval that occurs twice, with another interval of the same night
\* and stage between its occurrences
C9_Witness ==
    /\ pc = "plot"
    /\ Len(sleepData) = 3
    /\ sleepData[1] = sleepData[3]
    /\ sleepData[2] # sleepData[1]
    /\ sleepData[2].Value = sleepData[1].Value
    /\ FormatDate(sleepData[2].StartDate) = FormatDate(sleepData[1].StartDate)

-----------------------------------------------------------------------------
(* Properties of the whole run *)

\* main has returned from parseCSV
Parsed == pc \notin {"flags", "parse"} /\ file.exists /\ file.header # <<>>

Grouped == pc \in {"stats", "plot", "print", "done"}

Aggregated == pc \in {"plot", "print", "done"}

\* the fields of a data row, by the columns of Header
IsWatchRow(r) == HasPrefix(r[1], Watch)

WellFormed(r) == ParseTimestamp(r[2]).ok /\ ParseTimestamp(r[3]).ok

AsInterval(r) ==
    [StartDate |-> ParseTimestamp(r[2]).t, EndDate |-> ParseTimestamp(r[3]).t,
     Value |-> r[4]]

\* the rows of the scenario: two Watch rows and a Phone row
ScenarioRows ==
    << <<WatchProduct, T(1, 23, 0, 0), T(2, 1, 0, 0),  "asleepCore">>,
       <<WatchProduct, T(2, 1, 0, 0),  T(2, 1, 30, 0), "awake">>,
       <<PhoneProduct, T(1, 23, 0, 0), T(2, 0, 0, 0),  "inBed">> >>

\* C3: the key of a bucket is the calendar date on which each of its
\* intervals starts: the start lies in the 24 hours from the midnight of the
\* key, whatever its hour.  In the scenario the night 2024-01-01 has
\* asleepCore = 2h and the night 2024-01-02 has awake = 30m, and there is no
\* other night or stage.
C3_KeyIsStartDateAsIs ==
    /\ Grouped =>
          \A k \in DOMAIN groupedData : \A i \in DOMAIN groupedData[k] :
              /\ ParseDate(k).ok
              /\ ParseDate(k).t <= groupedData[k][i].StartDate
              /\ groupedData[k][i].StartDate < ParseDate(k).t + 24 * 3600
    /\ (Aggregated /\ file.records = ScenarioRows /\ startDate = <<>> /\ endDate = <<>>) =>
          nightlyStats = (<<2024, 1, 1>> :> ("asleepCore" :> 2 * 3600))
                         @@ (<<2024, 1, 2>> :> ("awake" :> 30 * 60))

\* the scenario has been aggregated
C3_Witness ==
    /\ pc = "plot"
    /\ file.records = ScenarioRows
    /\ startDate = <<>>
    /\ endDate = <<>>
    /\ DOMAIN groupedData = {<<2024, 1, 1>>, <<2024, 1, 2>>}

\* a Watch row is kept when it starts at or after the start filter and ends
\* at or before the end filter, an absent filter allowing every row
Keeps(r) ==
    /\ IsWatchRow(r)
    /\ (startDate = <<>> \/ ParseTimestamp(r[2]).t >= startDate[1])
    /\ (endDate = <<>> \/ ParseTimestamp(r[3]).t <= endDate[1])

\* C4: when parseCSV returns without error, the intervals it returns are
\* those of the Watch rows with start >= startFilter (if present) and
\* end <= endFilter (if present), in the order of the file.
C4_FilterInclusive ==
    (Parsed /\ err = "nil") =>
        LET kept == SelectSeq(file.records, Keeps)
        IN  sleepData = [i \in DOMAIN kept |-> AsInterval(kept[i])]

\* with a start filter, a row that starts at the filter is returned and a row
\* that starts one second earlier is not; the end filter is absent
C4_Witness ==
    /\ pc = "group"
    /\ startDate # <<>>
    /\ endDate = <<>>
    /\ \E i, j \in DOMAIN file.records :
          /\ IsWatchRow(file.records[i]) /\ IsWatchRow(file.records[j])
          /\ AsInterval(file.records[i]).StartDate = startDate[1]
          /\ AsInterval(file.records[j]).StartDate = startDate[1] - 1
          /\ AsInterval(file.records[i]) \in Range(sleepData)
          /\ AsInterval(file.records[j]) \notin Range(sleepData)

\* a Watch row of the file has a start or an end that does not parse
HasMalformedWatchRow ==
    \E i \in DOMAIN file.records :
        IsWatchRow(file.records[i]) /\ ~WellFormed(file.records[i])

\* C7: if a Watch row has a timestamp that does not parse, parseCSV returns
\* an error and no interval, and main ends with status 1 after a diagnostic,
\* with nothing grouped, aggregated, saved or summarised; if no Watch row
\* has one, parseCSV returns no error, whatever the other rows hold.
C7_AllOrNothing ==
    Parsed =>
        IF HasMalformedWatchRow
        THEN /\ err # "nil"
             /\ sleepData = <<>>
             /\ pc = "exit"
             /\ exitCode = 1
             /\ stdout[Len(stdout)] = [kind |-> "error", err |-> err]
             /\ \A i \in DOMAIN stdout : stdout[i].kind \notin {"title", "Date", "Total"}
             /\ groupedData = <<>>
             /\ nightlyStats = <<>>
             /\ chart = NoChart
        ELSE err = "nil" /\ pc # "exit"

\* a Watch row that parses, a Phone row that does not, then a Watch row that
\* does not: the run has ended in the error exit
C7_Witness ==
    /\ pc = "exit"
    /\ file.exists
    /\ Len(file.records) = 3
    /\ IsWatchRow(file.records[1]) /\ WellFormed(file.records[1])
    /\ ~IsWatchRow(file.records[2]) /\ ~WellFormed(file.records[2])
    /\ IsWatchRow(file.records[3]) /\ ~WellFormed(file.records[3])

\* the file has a header and no row with the Watch prefix
NoWatchRow ==
    \A i \in DOMAIN file.records : ~IsWatchRow(file.records[i])

\* C8: when the file has a header and no Watch row (no data row at all, or
\* only rows of other devices), parseCSV returns no interval and no error,
\* there is no night, every chart series is empty, the run does not take the
\* error exit, and it ends with status 0 having printed no night.
C8_EmptyRunSucceeds ==
    (Parsed /\ NoWatchRow) =>
        /\ err = "nil"
        /\ sleepData = <<>>
        /\ pc # "exit"
        /\ exitCode \in {-1, 0}
        /\ Grouped => DOMAIN groupedData = {}
        /\ Aggregated => DOMAIN nightlyStats = {}
        /\ chart.saved => \A k \in DOMAIN chart.series : chart.series[k] = <<>>
        /\ pc \in {"print", "done"} => chart.saved
        /\ pc = "done" =>
              /\ exitCode = 0
              /\ \A i \in DOMAIN stdout : stdout[i].kind # "Date"

\* a run over a file of Phone rows only has ended
C8_Witness ==
    /\ pc = "done"
    /\ file.exists
    /\ Len(file.records) = 2
    /\ NoWatchRow
    /\ chart.saved

-----------------------------------------------------------------------------
(* Properties of the reports that the program does not have *)

\* the dates of the "Date:" lines printed, in the order printed
DateLines ==
    LET IsDate(l) == l.kind = "Date"
        ls == SelectSeq(stdout, IsDate)
    IN  [i \in DOMAIN ls |-> ls[i].date]

\* C5: the "Date:" lines of the summary carry strictly ascending dates.
C5_SummaryAscending ==
    pc = "done" =>
        \A i \in 1..(Len(DateLines) - 1) :
            ParseDate(DateLines[i]).t < ParseDate(DateLines[i + 1]).t

\* the i-th earliest night of the statistics
NthNight(i) ==
    CHOOSE k \in DOMAIN nightlyStats :
        Cardinality({ j \in DOMAIN nightlyStats : ParseDate(j).t < ParseDate(k).t }) = i - 1

\* C6: in every series of the chart, the i-th point has the i-th earliest
\* night as x and that night's duration of the stage as y.
C6_SeriesPaired ==
    chart.saved =>
        \A k \in DOMAIN Stages :
            /\ Len(chart.series[k]) = Cardinality(DOMAIN nightlyStats)
            /\ \A i \in DOMAIN chart.series[k] :
                  /\ chart.series[k][i].X = ParseDate(NthNight(i)).t
                  /\ chart.series[k][i].Y = Minutes(Get(nightlyStats[NthNight(i)], Stages[k]))

\* the lines printed for a night: from its "Date:" line to the next one
LinesOfNight(night) ==
    { i \in DOMAIN stdout :
        /\ stdout[i].kind # "Date"
        /\ \E d \in 1..(i - 1) :
              /\ stdout[d] = [kind |-> "Date", date |-> night]
              /\ \A j \in (d + 1)..i : stdout[j].kind # "Date" }

\* C10: the summary of every night carries the number of "inBed" intervals
\* of that night's bucket.
C10_SessionCount ==
    pc = "done" =>
        \A night \in DOMAIN groupedData :
            \E i \in LinesOfNight(night) :
                /\ stdout[i].kind = "Sessions"
                /\ stdout[i].n = Cardinality({ j \in DOMAIN groupedData[night] :
                                                 groupedData[night][j].Value = "inBed" })

====
